---------------------------- MODULE Spec2Model ----------------------------
(***************************************************************************)
(* A model of presence_analyzer/utils.py: the CSV record parser get_data,  *)
(* the time-based cache decorator, the weekday aggregator and mean.        *)
(*                                                                         *)
(* Text is modelled as a sequence of one-character strings, so that the    *)
(* conversions int() and datetime.strptime() are computed from the         *)
(* characters of a field and can fail.  An optional value (a local         *)
(* variable that may be unbound, a cache entry that may be absent) is the  *)
(* empty sequence or a one-element sequence.                               *)
(***************************************************************************)
EXTENDS Integers, Sequences, FiniteSets, TLC

VARIABLES
    \* ---- get_data (one call) ----
    rows,       \* the rows csv.reader yields for the file, in order
    pc,         \* "start" | "loop" | "done" | "raised"
    i,          \* number of rows consumed so far (enumerate's next index)
    data,       \* the local dict data: user_id -> (date -> [start, end])
    user_id,    \* local variable user_id: <<>> while unbound, else <<v>>
    date,       \* local variable date
    start,      \* local variable start
    end,        \* local variable end
    logged,     \* line indices passed to log.debug, in order
    exc,        \* the exception that left get_data, "" if none
    \* ---- cache ----
    CACHE,      \* the dict CACHE: function name -> [data, time]
    CACHE_LOCKER, \* <<>> when free, <<t>> when thread t holds it
    tpc,        \* thread -> its place in __cache
    tcall,      \* thread -> what its call in progress has observed so far
    tret,       \* how the call that finished last ended, and what it observed
    ncalls,     \* calls started so far, by all threads
    now,        \* the clock read by time.time()
    source,     \* the state of the file the wrapped function reads
    stats,      \* totals: invocations of fun, raises, stores, first store time
    \* ---- group_by_weekday ----
    items,      \* the argument, in iteration order: seq of [date, start, end]
    gpc,        \* "call" | "loop" | "done"
    gpos,       \* number of dates iterated so far
    result,     \* weekday -> sequence of intervals
    \* ---- mean ----
    mitems,     \* the argument of mean
    mpc,        \* "call" | "done"
    mresult     \* the value returned: a rational [num, den], or a raise

parseVars == <<rows, pc, i, data, user_id, date, start, end, logged, exc>>
cacheVars == <<CACHE, CACHE_LOCKER, tpc, tcall, tret, ncalls, now, source, stats>>
groupVars == <<items, gpc, gpos, result>>
meanVars  == <<mitems, mpc, mresult>>
vars      == <<parseVars, cacheVars, groupVars, meanVars>>

----------------------------------------------------------------------------
(* Each component runs with the others at rest *)

ParseRest == UNCHANGED <<cacheVars, groupVars, meanVars>>

CacheRest == UNCHANGED <<parseVars, groupVars, meanVars>>

GroupRest == UNCHANGED <<parseVars, cacheVars, meanVars>>

MeanRest == UNCHANGED <<parseVars, cacheVars, groupVars>>

----------------------------------------------------------------------------
(* Bounds of the model *)

MaxRows == 3        \* rows in the CSV file
MaxDates == 3       \* dates in the argument of group_by_weekday
MaxItems == 3       \* elements in the argument of mean
MaxTicks == 3       \* clock advances
NThreads == 2       \* threads calling the cache-wrapped function
MaxCalls == 3       \* calls made, by all threads together

----------------------------------------------------------------------------
(* Text helpers *)

None == <<>>

Some(v) == <<v>>

Digits == {"0", "1", "2", "3", "4", "5", "6", "7", "8", "9"}

DigitVal(c) ==
    CASE c = "0" -> 0 [] c = "1" -> 1 [] c = "2" -> 2 [] c = "3" -> 3
      [] c = "4" -> 4 [] c = "5" -> 5 [] c = "6" -> 6 [] c = "7" -> 7
      [] c = "8" -> 8 [] c = "9" -> 9

IsDigits(s) == Len(s) > 0 /\ \A k \in 1..Len(s) : s[k] \in Digits

RECURSIVE Num(_)
Num(s) ==
    IF s = <<>> THEN 0
    ELSE Num(SubSeq(s, 1, Len(s) - 1)) * 10 + DigitVal(s[Len(s)])

RECURSIVE Strip(_)
Strip(s) ==
    IF s = <<>> THEN s
    ELSE IF Head(s) = " " THEN Strip(Tail(s))
    ELSE IF s[Len(s)] = " " THEN Strip(SubSeq(s, 1, Len(s) - 1))
    ELSE s

\* The pieces of s between occurrences of the character sep.
RECURSIVE Split(_, _)
Split(s, sep) ==
    IF s = <<>> THEN << <<>> >>
    ELSE LET rest == Split(Tail(s), sep) IN
         IF Head(s) = sep THEN << <<>> >> \o rest
         ELSE << <<Head(s)>> \o Head(rest) >> \o Tail(rest)

----------------------------------------------------------------------------
(* Conversions.  Each returns <<v>> on success and <<>> for ValueError. *)

\* int(row[0]): surrounding blanks, an optional sign, decimal digits.
IntOf(s) ==
    LET t == Strip(s) IN
    IF t = <<>> THEN None
    ELSE IF Head(t) = "-" THEN
            IF IsDigits(Tail(t)) THEN Some(0 - Num(Tail(t))) ELSE None
    ELSE IF Head(t) = "+" THEN
            IF IsDigits(Tail(t)) THEN Some(Num(Tail(t))) ELSE None
    ELSE IF IsDigits(t) THEN Some(Num(t)) ELSE None

\* A strptime numeric directive of one or two digits with a value range.
TwoDigit(s, lo, hi) ==
    IsDigits(s) /\ Len(s) <= 2 /\ Num(s) >= lo /\ Num(s) <= hi

IsLeap(y) == (y % 4 = 0) /\ ((y % 100 # 0) \/ (y % 400 = 0))

DaysInMonth(y, m) ==
    IF m = 2 THEN (IF IsLeap(y) THEN 29 ELSE 28)
    ELSE IF m \in {4, 6, 9, 11} THEN 30 ELSE 31

\* datetime.strptime(s, '%Y-%m-%d').date()
ParseDate(s) ==
    LET p == Split(s, "-") IN
    IF Len(p) # 3 THEN None
    ELSE IF ~(IsDigits(p[1]) /\ Len(p[1]) = 4 /\ Num(p[1]) >= 1) THEN None
    ELSE IF ~TwoDigit(p[2], 1, 12) THEN None
    ELSE IF ~TwoDigit(p[3], 1, 31) THEN None
    ELSE IF Num(p[3]) > DaysInMonth(Num(p[1]), Num(p[2])) THEN None
    ELSE Some([year |-> Num(p[1]), month |-> Num(p[2]), day |-> Num(p[3])])

\* datetime.strptime(s, '%H:%M:%S').time()
ParseTime(s) ==
    LET p == Split(s, ":") IN
    IF Len(p) # 3 THEN None
    ELSE IF ~TwoDigit(p[1], 0, 23) THEN None
    ELSE IF ~TwoDigit(p[2], 0, 59) THEN None
    ELSE IF ~TwoDigit(p[3], 0, 59) THEN None
    ELSE Some([hour |-> Num(p[1]), minute |-> Num(p[2]), second |-> Num(p[3])])

----------------------------------------------------------------------------
(* The rows a file may hold *)

U10 == <<"1", "0">>

U11 == <<"1", "1">>

UBad == <<"x">>

D1 == <<"2", "0", "1", "3", "-", "1", "0", "-", "0", "1">>

D2 == <<"2", "0", "1", "3", "-", "1", "0", "-", "0", "2">>

DBad == <<"2", "0", "1", "3", "-", "0", "2", "-", "3", "0">>

T0900 == <<"0", "9", ":", "0", "0", ":", "0", "0">>

T1730 == <<"1", "7", ":", "3", "0", ":", "0", "0">>

T0830 == <<"0", "8", ":", "3", "0", ":", "0", "0">>

T1645 == <<"1", "6", ":", "4", "5", ":", "0", "0">>

TBad == <<"2", "5", ":", "0", "0", ":", "0", "0">>

GoodRows ==
    { <<u, d, t[1], t[2]>> :
        u \in {U10, U11}, d \in {D1, D2},
        t \in {<<T0900, T1730>>, <<T0830, T1645>>} }

\* Four fields, one of which does not convert.
BadRows ==
    { <<UBad, D2, T0830, T1645>>,
      <<U11, DBad, T0830, T1645>>,
      <<U11, D2, TBad, T1645>>,
      <<U10, D2, T0830, TBad>> }

\* A header line, a blank line, a line with a fifth field.
WrongLenRows ==
    { << <<"h", "d", "r">> >>,
      << >>,
      <<U11, D2, T0830, T1645, <<"z">> >> }

Rows == GoodRows \cup BadRows \cup WrongLenRows

RECURSIVE SeqsUpTo(_, _)
SeqsUpTo(S, n) ==
    IF n = 0 THEN {<<>>}
    ELSE LET shorter == SeqsUpTo(S, n - 1) IN
         shorter \cup { Append(q, x) : q \in {r \in shorter : Len(r) = n - 1}, x \in S }

----------------------------------------------------------------------------
(* get_data *)

\* Mutant of Ignored: only short rows are ignored.
IgnoredShort(row) == Len(row) < 4

\* len(row) != 4: the row is ignored (continue).
Ignored(row) == Len(row) # 4

\* data.setdefault(u, {}): the dict, with key u added when it is missing.
SetDefault(d, u) ==
    IF u \in DOMAIN d THEN d
    ELSE [k \in DOMAIN d \cup {u} |-> IF k = u THEN << >> ELSE d[k]]

\* m[k] = v for a dict m given as a function.
SetItem(m, k, v) ==
    [x \in DOMAIN m \cup {k} |-> IF x = k THEN v ELSE m[x]]

\* Mutant of Insert: an entry already present is kept.
InsertKeepFirst(tbl, u, d, s, e) ==
    LET t == SetDefault(tbl, u) IN
    IF d \in DOMAIN t[u] THEN t
    ELSE [t EXCEPT ![u] = SetItem(t[u], d, [start |-> s, end |-> e])]

\* data.setdefault(u, {})[d] = {'start': s, 'end': e}
Insert(tbl, u, d, s, e) ==
    LET t == SetDefault(tbl, u) IN
    [t EXCEPT ![u] = SetItem(t[u], d, [start |-> s, end |-> e])]

\* The try block: the four assignments in order, stopping at the first
\* conversion that raises ValueError.  Locals assigned before the failure
\* keep their new value, the others keep the value they had.
TryBlock(st, row) ==
    LET u == IntOf(row[1]) IN
    IF u = None THEN [st EXCEPT !.failed = TRUE]
    ELSE LET d == ParseDate(row[2]) IN
    IF d = None THEN [st EXCEPT !.user_id = u, !.failed = TRUE]
    ELSE LET s == ParseTime(row[3]) IN
    IF s = None THEN [st EXCEPT !.user_id = u, !.date = d, !.failed = TRUE]
    ELSE LET e == ParseTime(row[4]) IN
    IF e = None
    THEN [st EXCEPT !.user_id = u, !.date = d, !.start = s, !.failed = TRUE]
    ELSE [st EXCEPT !.user_id = u, !.date = d, !.start = s, !.end = e,
                    !.failed = FALSE]

\* The statement after the try/except.  The right-hand side is evaluated
\* first, then data.setdefault(user_id, {}), then the subscript date; reading
\* an unbound local raises UnboundLocalError.
Store(st) ==
    IF st.start = None \/ st.end = None \/ st.user_id = None
    THEN [st EXCEPT !.exc = "UnboundLocalError"]
    ELSE IF st.date = None
    THEN [st EXCEPT !.data = SetDefault(st.data, st.user_id[1]),
                    !.exc = "UnboundLocalError"]
    ELSE [st EXCEPT !.data = Insert(st.data, st.user_id[1], st.date[1],
                                    st.start[1], st.end[1])]

\* One iteration of the for loop on row number n (counted from 0).
ProcessRow(st, row, n) ==
    IF Ignored(row) THEN st
    ELSE LET t == TryBlock(st, row) IN
         IF t.failed
         THEN Store([t EXCEPT !.logged = Append(t.logged, n), !.failed = FALSE])
         ELSE Store(t)

\* The state of get_data when the file has been opened: data = {}.
Fresh ==
    [data |-> << >>, user_id |-> None, date |-> None, start |-> None,
     end |-> None, logged |-> << >>, exc |-> "", failed |-> FALSE]

\* The loop over rs, whose first row has number n, from state st.
RECURSIVE RunFrom(_, _, _)
RunFrom(st, rs, n) ==
    IF rs = << >> \/ st.exc # "" THEN st
    ELSE RunFrom(ProcessRow(st, Head(rs), n), Tail(rs), n + 1)

\* What get_data does with the rows rs: the table it returns, or the raise.
Outcome(rs) ==
    LET st == RunFrom(Fresh, rs, 0) IN
    IF st.exc # "" THEN [raised |-> st.exc, table |-> << >>]
    ELSE [raised |-> "", table |-> st.data]

Cur ==
    [data |-> data, user_id |-> user_id, date |-> date, start |-> start,
     end |-> end, logged |-> logged, exc |-> exc, failed |-> FALSE]

SetCur(st) ==
    /\ data' = st.data
    /\ user_id' = st.user_id
    /\ date' = st.date
    /\ start' = st.start
    /\ end' = st.end
    /\ logged' = st.logged
    /\ exc' = st.exc
    /\ pc' = IF st.exc # "" THEN "raised" ELSE "loop"
    /\ i' = i + 1

ParseIdle ==
    /\ rows = << >> /\ pc = "idle" /\ i = 0 /\ data = << >>
    /\ user_id = None /\ date = None /\ start = None /\ end = None
    /\ logged = << >> /\ exc = ""

ParseInit ==
    /\ rows \in SeqsUpTo(Rows, MaxRows)
    /\ pc = "start" /\ i = 0 /\ data = << >>
    /\ user_id = None /\ date = None /\ start = None /\ end = None
    /\ logged = << >> /\ exc = ""

\* open(app.config['DATA_CSV'], 'r') succeeds.
Open ==
    /\ pc = "start"
    /\ pc' = "loop"
    /\ UNCHANGED <<rows, i, data, user_id, date, start, end, logged, exc>>
    /\ ParseRest

\* open() raises IOError: the file is missing or unreadable.
OpenFails ==
    /\ pc = "start"
    /\ pc' = "raised"
    /\ exc' = "IOError"
    /\ UNCHANGED <<rows, i, data, user_id, date, start, end, logged>>
    /\ ParseRest

\* An iteration on a row that does not have 4 fields.
SkipRow ==
    /\ pc = "loop" /\ i < Len(rows)
    /\ Ignored(rows[i + 1])
    /\ SetCur(ProcessRow(Cur, rows[i + 1], i))
    /\ UNCHANGED rows
    /\ ParseRest

\* An iteration on a 4-field row whose four fields convert.
ConvertRow ==
    /\ pc = "loop" /\ i < Len(rows)
    /\ ~Ignored(rows[i + 1])
    /\ ~TryBlock(Cur, rows[i + 1]).failed
    /\ SetCur(ProcessRow(Cur, rows[i + 1], i))
    /\ UNCHANGED rows
    /\ ParseRest

\* An iteration on a 4-field row with a field that does not convert.
FailedRow ==
    /\ pc = "loop" /\ i < Len(rows)
    /\ ~Ignored(rows[i + 1])
    /\ TryBlock(Cur, rows[i + 1]).failed
    /\ SetCur(ProcessRow(Cur, rows[i + 1], i))
    /\ UNCHANGED rows
    /\ ParseRest

\* The reader is exhausted: return data.
Return ==
    /\ pc = "loop" /\ i = Len(rows)
    /\ pc' = "done"
    /\ UNCHANGED <<rows, i, data, user_id, date, start, end, logged, exc>>
    /\ ParseRest

----------------------------------------------------------------------------
(* cache(duration), wrapping get_data *)

\* @cache(600)
Duration == 600

\* fun.__name__
FunName == "get_data"

Threads == 1..NThreads

\* The clock advances by half the freshness window at a time, so that an
\* entry is seen at ages 0, 300, 600 (still fresh), 900, ...
ClockStep == Duration \div 2

\* The file versions the wrapped function may find; "missing": open() fails.
Sources == {"v1", "v2", "missing"}

EmptyDict == [k \in {} |-> k]

\* Mutant of Miss: an entry aged exactly the duration counts as stale.
MissAtDuration(c, t) ==
    \/ FunName \notin DOMAIN c
    \/ t - c[FunName].time >= Duration

\* fun.__name__ not in CACHE or time.time() - CACHE[fun.__name__]['time'] > duration
Miss(c, t) ==
    \/ FunName \notin DOMAIN c
    \/ t - c[FunName].time > Duration

\* CACHE[fun.__name__] = {'data': v, 'time': t}
Stored(c, v, t) ==
    [k \in DOMAIN c \cup {FunName} |->
        IF k = FunName THEN [data |-> v, time |-> t] ELSE c[k]]

NoCall ==
    [before |-> EmptyDict, at |-> 0, miss |-> FALSE, invoked |-> 0, val |-> "",
     overlap |-> FALSE]

NoRet ==
    [kind |-> "none", thread |-> 0, val |-> "", before |-> EmptyDict, after |-> EmptyDict,
     at |-> 0, miss |-> FALSE, invoked |-> 0, funval |-> "", overlap |-> FALSE]

\* The threads inside the with block.
Inside == {t \in Threads : tpc[t] \in {"locked", "computing", "computed", "reading"}}

CacheIdle ==
    /\ CACHE = EmptyDict /\ CACHE_LOCKER = None
    /\ tpc = [t \in Threads |-> "off"]
    /\ tcall = [t \in Threads |-> NoCall]
    /\ tret = NoRet
    /\ ncalls = 0
    /\ now = 0 /\ source = "v1"
    /\ stats = [invoked |-> 0, raised |-> 0, stored |-> 0, first |-> 0]

CacheInit ==
    /\ CACHE = EmptyDict /\ CACHE_LOCKER = None
    /\ tpc = [t \in Threads |-> "idle"]
    /\ tcall = [t \in Threads |-> NoCall]
    /\ tret = NoRet
    /\ ncalls = 0
    /\ now = 0 /\ source \in Sources
    /\ stats = [invoked |-> 0, raised |-> 0, stored |-> 0, first |-> 0]

\* A thread calls the wrapped function: it reaches `with CACHE_LOCKER`.
Call(t) ==
    /\ tpc[t] = "idle" /\ ncalls < MaxCalls
    /\ tpc' = [tpc EXCEPT ![t] = "waiting"]
    /\ ncalls' = ncalls + 1
    /\ tcall' = [tcall EXCEPT ![t] = [NoCall EXCEPT !.overlap = (Inside # {})]]
    /\ UNCHANGED <<CACHE, CACHE_LOCKER, tret, now, source, stats>>
    /\ CacheRest

\* Mutant of Acquire: the thread enters without waiting for the lock.
AcquireNoWait(t) ==
    /\ tpc[t] = "waiting"
    /\ CACHE_LOCKER' = Some(t)
    /\ tpc' = [tpc EXCEPT ![t] = "locked"]
    /\ UNCHANGED <<CACHE, tcall, tret, ncalls, now, source, stats>>
    /\ CacheRest

\* CACHE_LOCKER.__enter__: blocks while another thread holds the lock.
Acquire(t) ==
    /\ tpc[t] = "waiting" /\ CACHE_LOCKER = None
    /\ CACHE_LOCKER' = Some(t)
    /\ tpc' = [tpc EXCEPT ![t] = "locked"]
    /\ UNCHANGED <<CACHE, tcall, tret, ncalls, now, source, stats>>
    /\ CacheRest

\* The if condition, with time.time() read now.
Check(t) ==
    /\ tpc[t] = "locked"
    /\ tcall' = [tcall EXCEPT ![t].before = CACHE, ![t].at = now,
                              ![t].miss = Miss(CACHE, now)]
    /\ tpc' = [tpc EXCEPT ![t] = IF Miss(CACHE, now) THEN "computing" ELSE "reading"]
    /\ UNCHANGED <<CACHE, CACHE_LOCKER, tret, ncalls, now, source, stats>>
    /\ CacheRest

\* fun(*args, **kwargs) returns.
FunReturns(t) ==
    /\ tpc[t] = "computing" /\ source # "missing"
    /\ tcall' = [tcall EXCEPT ![t].invoked = @ + 1, ![t].val = source]
    /\ tpc' = [tpc EXCEPT ![t] = "computed"]
    /\ stats' = [stats EXCEPT !.invoked = @ + 1]
    /\ UNCHANGED <<CACHE, CACHE_LOCKER, tret, ncalls, now, source>>
    /\ CacheRest

\* Mutant of Released: the exception leaves the lock held.
StillHeld(l) == l

\* The lock after an exception leaves the with block.
Released(l) == None

\* fun(*args, **kwargs) raises: the exception leaves the with block, which
\* releases the lock, and then leaves __cache.
FunRaises(t) ==
    /\ tpc[t] = "computing" /\ source = "missing"
    /\ CACHE_LOCKER' = Released(CACHE_LOCKER)
    /\ tpc' = [tpc EXCEPT ![t] = "idle"]
    /\ tret' = [kind |-> "raise", thread |-> t, val |-> "",
                before |-> tcall[t].before, after |-> CACHE, at |-> tcall[t].at,
                miss |-> tcall[t].miss, invoked |-> tcall[t].invoked + 1,
                funval |-> "", overlap |-> tcall[t].overlap]
    /\ tcall' = [tcall EXCEPT ![t] = NoCall]
    /\ stats' = [stats EXCEPT !.invoked = @ + 1, !.raised = @ + 1]
    /\ UNCHANGED <<CACHE, ncalls, now, source>>
    /\ CacheRest

\* The entry is built with time.time() read after fun returned, and assigned.
StoreEntry(t) ==
    /\ tpc[t] = "computed"
    /\ CACHE' = Stored(CACHE, tcall[t].val, now)
    /\ tpc' = [tpc EXCEPT ![t] = "reading"]
    /\ stats' = [stats EXCEPT !.stored = @ + 1,
                              !.first = IF stats.stored = 0 THEN now ELSE @]
    /\ UNCHANGED <<CACHE_LOCKER, tcall, tret, ncalls, now, source>>
    /\ CacheRest

\* return CACHE[fun.__name__]['data'], leaving the with block.
ReturnData(t) ==
    /\ tpc[t] = "reading"
    /\ tret' = [kind |-> "value", thread |-> t, val |-> CACHE[FunName].data,
                before |-> tcall[t].before, after |-> CACHE, at |-> tcall[t].at,
                miss |-> tcall[t].miss, invoked |-> tcall[t].invoked,
                funval |-> tcall[t].val, overlap |-> tcall[t].overlap]
    /\ tcall' = [tcall EXCEPT ![t] = NoCall]
    /\ CACHE_LOCKER' = None
    /\ tpc' = [tpc EXCEPT ![t] = "idle"]
    /\ UNCHANGED <<CACHE, ncalls, now, source, stats>>
    /\ CacheRest

\* Time passes.
Tick ==
    /\ now < MaxTicks * ClockStep
    /\ now' = now + ClockStep
    /\ UNCHANGED <<CACHE, CACHE_LOCKER, tpc, tcall, tret, ncalls, source, stats>>
    /\ CacheRest

\* The file is replaced, removed or restored.
ChangeSource ==
    /\ \E v \in Sources \ {source} : source' = v
    /\ UNCHANGED <<CACHE, CACHE_LOCKER, tpc, tcall, tret, ncalls, now, stats>>
    /\ CacheRest

----------------------------------------------------------------------------
(* seconds_since_midnight, interval, group_by_weekday *)

\* time.hour * 3600 + time.minute * 60 + time.second
seconds_since_midnight(time) ==
    time.hour * 3600 + time.minute * 60 + time.second

\* Mutant of interval: a negative difference is clamped to 0.
intervalClamped(s, e) ==
    IF seconds_since_midnight(e) < seconds_since_midnight(s) THEN 0
    ELSE seconds_since_midnight(e) - seconds_since_midnight(s)

\* seconds_since_midnight(end) - seconds_since_midnight(start)
interval(s, e) == seconds_since_midnight(e) - seconds_since_midnight(s)

RECURSIVE DaysBeforeMonth(_, _)
DaysBeforeMonth(y, m) ==
    IF m = 1 THEN 0 ELSE DaysBeforeMonth(y, m - 1) + DaysInMonth(y, m - 1)

\* date.toordinal(): days since 0001-01-01, which is day 1.
ToOrdinal(d) ==
    LET y == d.year - 1 IN
    y * 365 + (y \div 4) - (y \div 100) + (y \div 400)
      + DaysBeforeMonth(d.year, d.month) + d.day

\* date.weekday(): Monday is 0, Sunday is 6.
Weekday(d) == (ToOrdinal(d) + 6) % 7

\* {i: [] for i in range(7)}
EmptyBuckets == [w \in 0..6 |-> << >>]

\* result[date.weekday()].append(interval(start, end))
AddInterval(res, it) ==
    [res EXCEPT ![Weekday(it.date)] = Append(@, interval(it.start, it.end))]

GroupDates ==
    { [year |-> 2013, month |-> 9, day |-> 30],
      [year |-> 2013, month |-> 10, day |-> 1],
      [year |-> 2013, month |-> 10, day |-> 6],
      [year |-> 2013, month |-> 10, day |-> 8] }

GroupTimes ==
    { <<[hour |-> 9, minute |-> 0, second |-> 0], [hour |-> 17, minute |-> 30, second |-> 0]>>,
      <<[hour |-> 8, minute |-> 30, second |-> 0], [hour |-> 16, minute |-> 45, second |-> 0]>>,
      <<[hour |-> 17, minute |-> 30, second |-> 0], [hour |-> 9, minute |-> 0, second |-> 0]>>,
      <<[hour |-> 23, minute |-> 59, second |-> 59], [hour |-> 23, minute |-> 59, second |-> 59]>> }

GroupItems ==
    { [date |-> d, start |-> t[1], end |-> t[2]] : d \in GroupDates, t \in GroupTimes }

\* A dict has each key once: the dates of the argument are distinct.
DistinctDates(q) ==
    \A a, b \in 1..Len(q) : a # b => q[a].date # q[b].date

GroupIdle ==
    /\ items = << >> /\ gpc = "off" /\ gpos = 0 /\ result = EmptyDict

GroupInit ==
    /\ items \in {q \in SeqsUpTo(GroupItems, MaxDates) : DistinctDates(q)}
    /\ gpc = "call" /\ gpos = 0 /\ result = EmptyDict

\* result = {i: [] for i in range(7)}
GroupStart ==
    /\ gpc = "call"
    /\ result' = EmptyBuckets
    /\ gpc' = "loop"
    /\ UNCHANGED <<items, gpos>>
    /\ GroupRest

\* One iteration of `for date in items`.
GroupStep ==
    /\ gpc = "loop" /\ gpos < Len(items)
    /\ result' = AddInterval(result, items[gpos + 1])
    /\ gpos' = gpos + 1
    /\ UNCHANGED <<items, gpc>>
    /\ GroupRest

\* return result
GroupReturn ==
    /\ gpc = "loop" /\ gpos = Len(items)
    /\ gpc' = "done"
    /\ UNCHANGED <<items, gpos, result>>
    /\ GroupRest

----------------------------------------------------------------------------
(* mean *)

\* sum(items)
RECURSIVE Sum(_)
Sum(q) == IF q = << >> THEN 0 ELSE Head(q) + Sum(Tail(q))

\* Mutant of mean: the division is integer division (no float()).
meanFloorDiv(q) ==
    IF Len(q) > 0
    THEN [kind |-> "value", num |-> Sum(q) \div Len(q), den |-> 1]
    ELSE [kind |-> "value", num |-> 0, den |-> 1]

\* float(sum(items)) / len(items) if len(items) > 0 else 0
\* The quotient is kept exact, as numerator and denominator.
mean(q) ==
    IF Len(q) > 0
    THEN [kind |-> "value", num |-> Sum(q), den |-> Len(q)]
    ELSE [kind |-> "value", num |-> 0, den |-> 1]

MeanValues == {-5, 0, 10, 20, 25}

MeanIdle ==
    /\ mitems = << >> /\ mpc = "off" /\ mresult = [kind |-> "none", num |-> 0, den |-> 1]

MeanInit ==
    /\ mitems \in SeqsUpTo(MeanValues, MaxItems)
    /\ mpc = "call" /\ mresult = [kind |-> "none", num |-> 0, den |-> 1]

MeanCall ==
    /\ mpc = "call"
    /\ mresult' = mean(mitems)
    /\ mpc' = "done"
    /\ UNCHANGED mitems
    /\ MeanRest

----------------------------------------------------------------------------
(* Specifications: one per component, the others at rest *)

Init == ParseInit /\ CacheIdle /\ GroupIdle /\ MeanIdle

Next == Open \/ OpenFails \/ SkipRow \/ ConvertRow \/ FailedRow \/ Return

Spec == Init /\ [][Next]_vars

InitCache == ParseIdle /\ CacheInit /\ GroupIdle /\ MeanIdle

NextCache ==
    \/ \E t \in Threads :
          \/ Call(t) \/ Acquire(t) \/ Check(t) \/ FunReturns(t)
          \/ FunRaises(t) \/ StoreEntry(t) \/ ReturnData(t)
    \/ Tick
    \/ ChangeSource

SpecCache == InitCache /\ [][NextCache]_vars

InitGroup == ParseIdle /\ CacheIdle /\ GroupInit /\ MeanIdle

NextGroup == GroupStart \/ GroupStep \/ GroupReturn

SpecGroup == InitGroup /\ [][NextGroup]_vars

InitMean == ParseIdle /\ CacheIdle /\ GroupIdle /\ MeanInit

NextMean == MeanCall

SpecMean == InitMean /\ [][NextMean]_vars

----------------------------------------------------------------------------
(* Properties of get_data *)

\* A 4-field row whose four fields convert.
WellFormed(row) ==
    /\ Len(row) = 4
    /\ IntOf(row[1]) # None /\ ParseDate(row[2]) # None
    /\ ParseTime(row[3]) # None /\ ParseTime(row[4]) # None

\* A 4-field row with a field that does not convert.
Unparseable(row) == Len(row) = 4 /\ ~WellFormed(row)

RemoveAt(q, k) == SubSeq(q, 1, k - 1) \o SubSeq(q, k + 1, Len(q))

\* How the call ended, once it has.
Final ==
    IF pc = "raised" THEN [raised |-> exc, table |-> << >>]
    ELSE [raised |-> "", table |-> data]

\* The (user_id, date) pairs of a table.
Pairs(tbl) == UNION { {<<u, d>> : d \in DOMAIN tbl[u]} : u \in DOMAIN tbl }

\* C1: when get_data returns, for every unparseable 4-field row of the input
\* the table equals the table get_data returns for the input without that row.
C1_BadRowSkipped ==
    pc = "done" =>
        \A k \in 1..Len(rows) :
            Unparseable(rows[k]) => Final = Outcome(RemoveAt(rows, k))

\* C2: get_data never raises because of a bad row: the only exception that
\* leaves it is the failure to open the file.
C2_NeverRaisesOnBadRow == pc = "raised" => exc = "IOError"

\* C3: on an input of well-formed rows only, get_data returns a table whose
\* (user_id, date) pairs are exactly those of the input, each mapped to the
\* start and end of the last row carrying the pair; it raises nothing.
C3_LastRowWins ==
    (pc \in {"done", "raised"} /\ exc # "IOError"
        /\ \A k \in 1..Len(rows) : WellFormed(rows[k])) =>
      /\ pc = "done"
      /\ Pairs(data) =
           { <<IntOf(rows[k][1])[1], ParseDate(rows[k][2])[1]>> : k \in 1..Len(rows) }
      /\ \A k \in 1..Len(rows) :
           LET u == IntOf(rows[k][1])[1]
               d == ParseDate(rows[k][2])[1]
           IN  (\A j \in (k + 1)..Len(rows) :
                    ~(IntOf(rows[j][1])[1] = u /\ ParseDate(rows[j][2])[1] = d))
               => data[u][d] = [start |-> ParseTime(rows[k][3])[1],
                                end |-> ParseTime(rows[k][4])[1]]

\* An input of well-formed rows in which a later row overwrote an earlier one.
C3_Witness ==
    /\ pc = "done"
    /\ \A k \in 1..Len(rows) : WellFormed(rows[k])
    /\ \E j, k \in 1..Len(rows) :
          /\ j < k
          /\ rows[j][1] = rows[k][1] /\ rows[j][2] = rows[k][2]
          /\ rows[j][3] # rows[k][3]

\* C4: a row whose field count is not 4 is skipped: after any number of rows,
\* the table, the local variables and the outcome are those of the same rows
\* without that row, and skipping the row logs nothing.
C4_WrongLengthSkipped ==
    (pc \in {"loop", "done", "raised"} /\ exc # "IOError") =>
        \A k \in 1..i :
            Len(rows[k]) # 4 =>
                LET st == RunFrom(Fresh, RemoveAt(SubSeq(rows, 1, i), k), 0) IN
                /\ st.data = data /\ st.exc = exc
                /\ st.user_id = user_id /\ st.date = date
                /\ st.start = start /\ st.end = end
                /\ Len(st.logged) = Len(logged)

\* A returned table built around a skipped five-field line.
C4_Witness ==
    /\ pc = "done"
    /\ \E k \in 1..Len(rows) : Len(rows[k]) = 5 /\ 1 < k /\ k < Len(rows)
    /\ WellFormed(rows[1]) /\ WellFormed(rows[Len(rows)])

\* C10: after any prefix of the input, every entry of the table has the
\* user id, date, start and end of one input row whose four fields converted.
C10_Provenance ==
    \A u \in DOMAIN data : \A d \in DOMAIN data[u] :
        \E k \in 1..i :
            /\ WellFormed(rows[k])
            /\ IntOf(rows[k][1]) = Some(u) /\ ParseDate(rows[k][2]) = Some(d)
            /\ ParseTime(rows[k][3]) = Some(data[u][d].start)
            /\ ParseTime(rows[k][4]) = Some(data[u][d].end)

----------------------------------------------------------------------------
(* Properties of cache *)

\* The entry of the wrapped function in c is present and at most Duration old
\* at time t.
FreshAt(c, t) == FunName \in DOMAIN c /\ t - c[FunName].time <= Duration

\* C5: a call that finds an entry aged at most Duration returns the stored
\* data, does not invoke the wrapped function and leaves the entry as it was;
\* a call that finds no entry or an older one invokes the wrapped function
\* once, stores its result with the time read after it returned, and returns
\* that result.
C5_HitOrRecompute ==
    tret.kind = "value" =>
        IF FreshAt(tret.before, tret.at)
        THEN /\ tret.val = tret.before[FunName].data
             /\ tret.invoked = 0
             /\ tret.after = tret.before
        ELSE /\ tret.invoked = 1
             /\ tret.val = tret.funval
             /\ FunName \in DOMAIN tret.after
             /\ tret.after[FunName].data = tret.funval
             /\ tret.after[FunName].time >= tret.at
             /\ tret.after[FunName].time <= now

\* Three calls have finished: the first computed, the second was served the
\* entry, and the last found it too old and replaced it with new data.
C5_Witness ==
    /\ tret.kind = "value"
    /\ FunName \in DOMAIN tret.before
    /\ tret.at - tret.before[FunName].time > Duration
    /\ tret.val # tret.before[FunName].data
    /\ tret.after[FunName].time > tret.before[FunName].time
    /\ ncalls = 3 /\ Inside = {} /\ \A t \in Threads : tpc[t] = "idle"
    /\ stats.invoked = 2 /\ stats.raised = 0

\* C6: at most one thread is between acquiring and releasing CACHE_LOCKER, and
\* it is the holder of the lock; and while the first entry stored in the empty
\* cache is at most Duration old, a single recomputation has been stored, no
\* other has returned, and every call that returns gets the stored data.
C6_OneAtATime ==
    /\ Cardinality(Inside) <= 1
    /\ \A t \in Inside : CACHE_LOCKER = Some(t)
    /\ (stats.stored >= 1 /\ now - stats.first <= Duration) =>
          /\ stats.stored = 1
          /\ stats.invoked - stats.raised = 1
          /\ CACHE[FunName].time = stats.first
          /\ (tret.kind = "value" => tret.val = CACHE[FunName].data)

\* Two threads called on the empty cache, the second while the first was
\* inside the with block; the first computed, the second was served the
\* stored result.
C6_Witness ==
    /\ tret.kind = "value" /\ ~tret.miss /\ tret.overlap
    /\ tret.val = CACHE[FunName].data
    /\ ncalls = 2 /\ \A t \in Threads : tpc[t] = "idle"
    /\ stats.stored = 1 /\ stats.invoked = 1
    /\ now - stats.first <= Duration

\* C9: when the wrapped function raises, the call ends with the exception,
\* CACHE is as the call found it, the lock is not left held (it is held only
\* by a thread inside the with block), and as long as CACHE stays so a later
\* check is again a miss.
C9_RaiseLeavesCacheAndLock ==
    /\ tret.kind = "raise" =>
          /\ tret.miss
          /\ tret.after = tret.before
          /\ tret.invoked = 1
          /\ tpc[tret.thread] \notin {"locked", "computing", "computed", "reading"}
               => CACHE_LOCKER # Some(tret.thread)
          /\ (CACHE = tret.before => Miss(CACHE, now))
    /\ (CACHE_LOCKER # None => \E t \in Inside : CACHE_LOCKER = Some(t))

\* After a raise on a stale entry, which kept its data and time, another
\* thread holds the lock and is recomputing.
C9_Witness ==
    \E u \in Threads :
        /\ tret.kind = "raise" /\ u # tret.thread
        /\ FunName \in DOMAIN tret.before
        /\ CACHE = tret.before
        /\ tpc[u] = "computing" /\ CACHE_LOCKER = Some(u)
        /\ tcall[u].before = CACHE
        /\ stats.raised = 1

----------------------------------------------------------------------------
(* Properties of group_by_weekday and mean *)

\* The seconds from s to e, from the fields of the two times.
SecondsBetween(s, e) ==
    (e.hour * 3600 + e.minute * 60 + e.second)
      - (s.hour * 3600 + s.minute * 60 + s.second)

\* The values the dates of q that fall on weekday w contribute, in order.
RECURSIVE ValuesOn(_, _)
ValuesOn(q, w) ==
    IF q = << >> THEN << >>
    ELSE IF Weekday(Head(q).date) = w
         THEN <<SecondsBetween(Head(q).start, Head(q).end)>> \o ValuesOn(Tail(q), w)
         ELSE ValuesOn(Tail(q), w)

RECURSIVE TotalLen(_, _)
TotalLen(res, w) ==
    IF w < 0 THEN 0 ELSE Len(res[w]) + TotalLen(res, w - 1)

\* C7: group_by_weekday returns a mapping with exactly the keys 0..6; the
\* bucket of a weekday holds, in iteration order, end minus start in seconds
\* (negative when end precedes start) of each input date on that weekday,
\* and nothing else, so the bucket lengths sum to the number of dates.
C7_WeekdayBuckets ==
    gpc = "done" =>
        /\ DOMAIN result = 0..6
        /\ \A w \in 0..6 : result[w] = ValuesOn(items, w)
        /\ TotalLen(result, 6) = Len(items)

\* Three dates were grouped, two of them on the same weekday, one with an end
\* before its start.
C7_Witness ==
    /\ gpc = "done" /\ Len(items) = 3
    /\ \E w \in 0..6 : Len(result[w]) = 2 /\ result[w][1] < 0 /\ result[w][2] > 0
    /\ \E w \in 0..6 : result[w] = << >>

\* C8: mean returns 0 for the empty sequence and raises nothing; for a
\* non-empty sequence it returns the sum of the elements divided by their
\* number; mean([10, 20]) is 15.
C8_Mean ==
    mpc = "done" =>
        /\ mresult.kind = "value"
        /\ mresult.den > 0
        /\ mitems = << >> => mresult.num = 0
        /\ mitems # << >> => mresult.num * Len(mitems) = Sum(mitems) * mresult.den
        /\ mitems = <<10, 20>> => mresult.num = 15 * mresult.den

\* mean was applied to a sequence whose sum its length does not divide.
C8_Witness ==
    /\ mpc = "done" /\ mitems = <<10, 25>>
    /\ 2 * mresult.num = 35 * mresult.den

=============================================================================
